---- MODULE Spec2Model ----
(***************************************************************************)
(* Model of src/ffi/parlance_repl.c: the terminal raw-mode session of the  *)
(* Parlance REPL (enable/disable raw mode, terminal size, one-byte read).  *)
(*                                                                         *)
(* A struct termios is a record of its four flag words (each a set of the  *)
(* flag bits that are on) and its control-character array c_cc.  The OS    *)
(* calls (tcgetattr, tcsetattr, ioctl, read) may each fail; a failed call  *)
(* changes nothing, a successful tcsetattr installs exactly its argument.  *)
(* No other party changes the terminal.                                    *)
(***************************************************************************)
EXTENDS Integers, Sequences, FiniteSets, TLC

VARIABLES
  term,              \* live attributes of the terminal on STDIN_FILENO
  original_termios,  \* static struct termios original_termios
  raw_mode_enabled,  \* static int raw_mode_enabled
  captured,          \* history: some tcgetattr into original_termios succeeded
  pre_entry,         \* history: live attributes just before the last successful entry
  entries,           \* history: number of successful entries (saturating)
  baseline,          \* history: live attributes when the process started
  op,                \* history: the exported function that returned last
  ret,               \* history: the lean_obj_res it returned
  oscalls,           \* history: the OS calls that call made, in order
  pc,                \* per caller: position inside enable/disable (interleaved runs)
  raw,               \* per caller: the local `struct termios raw`
  callers            \* the threads of the host calling into this file

vars == <<term, original_termios, raw_mode_enabled, captured, pre_entry, entries,
          baseline, op, ret, oscalls, pc, raw, callers>>

----------------------------------------------------------------------------
(* Bounds *)

MaxDim == 2          \* ioctl reports columns and rows in 0..MaxDim
MaxEntries == 2      \* the entries counter saturates here

(* Program constants *)

DefaultCols == 80
DefaultRows == 24
Byte == 0..255       \* unsigned char c

----------------------------------------------------------------------------
(* struct termios *)

RawIFlags == {"BRKINT", "ICRNL", "INPCK", "ISTRIP", "IXON"}
RawLFlags == {"ECHO", "ICANON", "IEXTEN", "ISIG"}
\* CS8 is the whole two-bit CSIZE field; CS7 is one bit of it.
CS8 == {"CSIZE_B0", "CSIZE_B1"}

Termios(i, o, c, l, cc) ==
  [c_iflag |-> i, c_oflag |-> o, c_cflag |-> c, c_lflag |-> l, c_cc |-> cc]

\* A static struct is zero-initialised.
ZeroTermios ==
  Termios({}, {}, {}, {}, [VMIN |-> 0, VTIME |-> 0, VINTR |-> 0])

\* Attribute states the terminal can be in when the process starts.
InitialTerminals ==
  { \* an ordinary cooked terminal
    Termios({"BRKINT", "ICRNL", "IXON", "IMAXBEL"}, {"OPOST", "ONLCR"},
            {"CSIZE_B0", "CSIZE_B1", "CREAD"},
            {"ECHO", "ICANON", "IEXTEN", "ISIG", "ECHOE"},
            [VMIN |-> 1, VTIME |-> 0, VINTR |-> 3]),
    \* a 7-bit line with parity and stripping, output processing off
    Termios({"INPCK", "ISTRIP", "IGNBRK"}, {},
            {"CSIZE_B1", "PARENB"},
            {"ECHO", "ICANON", "ISIG"},
            [VMIN |-> 1, VTIME |-> 1, VINTR |-> 3]),
    \* non-canonical with a read timeout, everything else on
    Termios({"BRKINT", "ICRNL", "INPCK", "ISTRIP", "IXON"}, {"OPOST"},
            {"CSIZE_B0"},
            {"ECHO", "IEXTEN", "ISIG", "NOFLSH"},
            [VMIN |-> 0, VTIME |-> 1, VINTR |-> 0]),
    \* left in raw form by the parent process
    Termios({"IGNBRK"}, {"OPOST", "ONLCR"},
            {"CSIZE_B0", "CSIZE_B1", "CREAD"},
            {"ECHOE"},
            [VMIN |-> 0, VTIME |-> 0, VINTR |-> 3]) }

\* Variant: the derivation of a full-screen application, which also turns
\* output post-processing off.
MakeRawClearsOPOST(t) ==
  [t EXCEPT !.c_iflag = @ \ RawIFlags,
            !.c_oflag = @ \ {"OPOST"},
            !.c_cflag = @ \cup CS8,
            !.c_lflag = @ \ RawLFlags,
            !.c_cc = [@ EXCEPT !.VMIN = 0, !.VTIME = 0]]

\* The attribute set derived from a snapshot t (struct termios raw = ...).
MakeRaw(t) ==
  [t EXCEPT !.c_iflag = @ \ RawIFlags,
            !.c_cflag = @ \cup CS8,
            !.c_lflag = @ \ RawLFlags,
            !.c_cc = [@ EXCEPT !.VMIN = 0, !.VTIME = 0]]

----------------------------------------------------------------------------
(* lean_obj_res values *)

Result(status, msg, tag, a, b) ==
  [status |-> status, msg |-> msg, tag |-> tag, a |-> a, b |-> b]

OkUnit == Result("ok", "", "unit", 0, 0)
IoError(msg) == Result("error", msg, "unit", 0, 0)
OkPair(w, h) == Result("ok", "", "pair", w, h)
OkSome(c) == Result("ok", "", "some", c, 0)
OkNone == Result("ok", "", "none", 0, 0)

ErrGet == "Failed to get terminal attributes"
ErrSetRaw == "Failed to set terminal to raw mode"
ErrRestore == "Failed to restore terminal settings"

\* One OS call of the last operation: its name, whether it succeeded, the
\* struct termios it read or was given, and two numbers (ioctl: reported
\* columns and rows; read: its return value and the byte stored).
OsCall(call, ok, attrs, x, y) ==
  [call |-> call, ok |-> ok, attrs |-> attrs, x |-> x, y |-> y]

Min(a, b) == IF a < b THEN a ELSE b

Callers == {"c1", "c2"}

----------------------------------------------------------------------------
(* State after loading the library *)

InitShared ==
  /\ term \in InitialTerminals
  /\ original_termios = ZeroTermios
  /\ raw_mode_enabled = FALSE
  /\ captured = FALSE
  /\ pre_entry = ZeroTermios
  /\ entries = 0
  /\ baseline = term
  /\ op = "none"
  /\ ret = OkUnit
  /\ oscalls = <<>>
  /\ pc = [c \in Callers |-> "idle"]
  /\ raw = [c \in Callers |-> ZeroTermios]

Init ==
  /\ InitShared
  /\ callers = {"c1"}

conc_vars == <<pc, raw, callers, baseline>>

----------------------------------------------------------------------------
(* parlance_repl_enable_raw_mode, one path per definition *)

\* Variant: no early return, the active session is captured and applied again.
EnableAlreadyActiveReenters ==
  /\ raw_mode_enabled
  /\ original_termios' = term
  /\ term' = MakeRaw(term)
  /\ ret' = OkUnit
  /\ oscalls' = << OsCall("tcgetattr", TRUE, term, 0, 0),
                   OsCall("tcsetattr", TRUE, MakeRaw(term), 0, 0) >>
  /\ UNCHANGED <<raw_mode_enabled, captured, pre_entry, entries>>

EnableAlreadyActive ==
  /\ raw_mode_enabled
  /\ ret' = OkUnit
  /\ oscalls' = <<>>
  /\ UNCHANGED <<term, original_termios, raw_mode_enabled, captured, pre_entry, entries>>

EnableCaptureFails ==
  /\ ~raw_mode_enabled
  /\ ret' = IoError(ErrGet)
  /\ oscalls' = << OsCall("tcgetattr", FALSE, ZeroTermios, 0, 0) >>
  /\ UNCHANGED <<term, original_termios, raw_mode_enabled, captured, pre_entry, entries>>

\* Variant: the flag is written before the tcsetattr result is tested.
EnableApplyFailsMarksActive ==
  /\ ~raw_mode_enabled
  /\ original_termios' = term
  /\ captured' = TRUE
  /\ raw_mode_enabled' = TRUE
  /\ ret' = IoError(ErrSetRaw)
  /\ oscalls' = << OsCall("tcgetattr", TRUE, term, 0, 0),
                   OsCall("tcsetattr", FALSE, MakeRaw(term), 0, 0) >>
  /\ UNCHANGED <<term, pre_entry, entries>>

EnableApplyFails ==
  /\ ~raw_mode_enabled
  /\ original_termios' = term
  /\ captured' = TRUE
  /\ ret' = IoError(ErrSetRaw)
  /\ oscalls' = << OsCall("tcgetattr", TRUE, term, 0, 0),
                   OsCall("tcsetattr", FALSE, MakeRaw(term), 0, 0) >>
  /\ UNCHANGED <<term, raw_mode_enabled, pre_entry, entries>>

\* Variant: the flags are cleared in original_termios itself, not in a copy.
EnableSucceedsInPlace ==
  /\ ~raw_mode_enabled
  /\ original_termios' = MakeRaw(term)
  /\ captured' = TRUE
  /\ term' = MakeRaw(term)
  /\ raw_mode_enabled' = TRUE
  /\ pre_entry' = term
  /\ entries' = Min(entries + 1, MaxEntries)
  /\ ret' = OkUnit
  /\ oscalls' = << OsCall("tcgetattr", TRUE, term, 0, 0),
                   OsCall("tcsetattr", TRUE, MakeRaw(term), 0, 0) >>

EnableSucceeds ==
  /\ ~raw_mode_enabled
  /\ original_termios' = term
  /\ captured' = TRUE
  /\ term' = MakeRaw(term)
  /\ raw_mode_enabled' = TRUE
  /\ pre_entry' = term
  /\ entries' = Min(entries + 1, MaxEntries)
  /\ ret' = OkUnit
  /\ oscalls' = << OsCall("tcgetattr", TRUE, term, 0, 0),
                   OsCall("tcsetattr", TRUE, MakeRaw(term), 0, 0) >>

Enable ==
  /\ op' = "enable_raw_mode"
  /\ \/ EnableAlreadyActive
     \/ EnableCaptureFails
     \/ EnableApplyFails
     \/ EnableSucceeds
  /\ UNCHANGED conc_vars

----------------------------------------------------------------------------
(* parlance_repl_disable_raw_mode *)

\* Variant: no early return, the snapshot buffer is applied whatever it holds.
DisableNotActiveApplies ==
  /\ ~raw_mode_enabled
  /\ term' = original_termios
  /\ ret' = OkUnit
  /\ oscalls' = << OsCall("tcsetattr", TRUE, original_termios, 0, 0) >>
  /\ UNCHANGED <<original_termios, raw_mode_enabled>>

DisableNotActive ==
  /\ ~raw_mode_enabled
  /\ ret' = OkUnit
  /\ oscalls' = <<>>
  /\ UNCHANGED <<term, original_termios, raw_mode_enabled>>

\* Variant: the flag is cleared before the tcsetattr result is tested.
DisableRestoreFailsClearsFlag ==
  /\ raw_mode_enabled
  /\ raw_mode_enabled' = FALSE
  /\ ret' = IoError(ErrRestore)
  /\ oscalls' = << OsCall("tcsetattr", FALSE, original_termios, 0, 0) >>
  /\ UNCHANGED <<term, original_termios>>

DisableRestoreFails ==
  /\ raw_mode_enabled
  /\ ret' = IoError(ErrRestore)
  /\ oscalls' = << OsCall("tcsetattr", FALSE, original_termios, 0, 0) >>
  /\ UNCHANGED <<term, original_termios, raw_mode_enabled>>

\* Variant: the flag write after a successful restore is missing.
DisableSucceedsKeepsFlag ==
  /\ raw_mode_enabled
  /\ term' = original_termios
  /\ ret' = OkUnit
  /\ oscalls' = << OsCall("tcsetattr", TRUE, original_termios, 0, 0) >>
  /\ UNCHANGED <<original_termios, raw_mode_enabled>>

DisableSucceeds ==
  /\ raw_mode_enabled
  /\ term' = original_termios
  /\ raw_mode_enabled' = FALSE
  /\ ret' = OkUnit
  /\ oscalls' = << OsCall("tcsetattr", TRUE, original_termios, 0, 0) >>
  /\ UNCHANGED original_termios

Disable ==
  /\ op' = "disable_raw_mode"
  /\ \/ DisableNotActive
     \/ DisableRestoreFails
     \/ DisableSucceeds
  /\ UNCHANGED <<captured, pre_entry, entries>>
  /\ UNCHANGED conc_vars

----------------------------------------------------------------------------
(* parlance_repl_get_size *)

\* ok: ioctl did not return -1; col, row: ws_col, ws_row as it filled them.
SizeResult(ok, col, row) ==
  IF ~ok \/ col = 0 THEN OkPair(DefaultCols, DefaultRows) ELSE OkPair(col, row)

GetSize ==
  /\ op' = "get_size"
  /\ \E ok \in BOOLEAN, col \in 0..MaxDim, row \in 0..MaxDim :
       \* a failed ioctl fills nothing in
       /\ ok \/ (col = 0 /\ row = 0)
       /\ ret' = SizeResult(ok, col, row)
       /\ oscalls' = << OsCall("ioctl", ok, ZeroTermios, col, row) >>
  /\ UNCHANGED <<term, original_termios, raw_mode_enabled, captured, pre_entry, entries>>
  /\ UNCHANGED conc_vars

----------------------------------------------------------------------------
(* parlance_repl_read_byte *)

\* Variant: tests nread >= 0 instead of nread == 1.
ReadResultNonNegative(nread, c) ==
  IF nread >= 0 THEN OkSome(c) ELSE OkNone

\* nread: what read() returned; c: the byte in the buffer.
ReadResult(nread, c) ==
  IF nread = 1 THEN OkSome(c) ELSE OkNone

ReadByte ==
  /\ op' = "read_byte"
  /\ \E nread \in {-1, 0, 1}, c \in Byte :
       \* c is only stored when a byte was read
       /\ nread = 1 \/ c = 0
       /\ ret' = ReadResult(nread, c)
       /\ oscalls' = << OsCall("read", nread # -1, ZeroTermios, nread, c) >>
  /\ UNCHANGED <<term, original_termios, raw_mode_enabled, captured, pre_entry, entries>>
  /\ UNCHANGED conc_vars

----------------------------------------------------------------------------

Next == Enable \/ Disable \/ GetSize \/ ReadByte

Spec == Init /\ [][Next]_vars

----------------------------------------------------------------------------
(* The same two functions called from several threads of the host.  The   *)
(* file takes no lock, so calls interleave between the flag test, the     *)
(* tcgetattr, the copy into the local raw, the tcsetattr and the flag     *)
(* write.  op and ret record the call that returned last.                 *)
(* The unsynchronised accesses to raw_mode_enabled and original_termios    *)
(* are a data race; every order of the steps below is explored, so each   *)
(* read may see the value before or after any concurrent write.           *)

seq_hist == <<pre_entry, entries, oscalls>>

Return(c, name, result) ==
  /\ pc' = [pc EXCEPT ![c] = "idle"]
  /\ op' = name
  /\ ret' = result

Goto(c, label) ==
  /\ pc' = [pc EXCEPT ![c] = label]
  /\ UNCHANGED <<op, ret>>

\* if (raw_mode_enabled) return ok;
EnCheck(c) ==
  /\ pc[c] = "idle"
  /\ IF raw_mode_enabled
       THEN Return(c, "enable_raw_mode", OkUnit)
       ELSE Goto(c, "en_get")
  /\ UNCHANGED <<term, original_termios, raw_mode_enabled, captured, raw>>
  /\ UNCHANGED <<seq_hist, callers, baseline>>

\* if (tcgetattr(STDIN_FILENO, &original_termios) == -1) return error;
EnGet(c) ==
  /\ pc[c] = "en_get"
  /\ \E ok \in BOOLEAN :
       IF ok
         THEN /\ original_termios' = term
              /\ captured' = TRUE
              /\ Goto(c, "en_copy")
         ELSE /\ Return(c, "enable_raw_mode", IoError(ErrGet))
              /\ UNCHANGED <<original_termios, captured>>
  /\ UNCHANGED <<term, raw_mode_enabled, raw>>
  /\ UNCHANGED <<seq_hist, callers, baseline>>

\* Variant: the flags are cleared in original_termios itself, not in a copy.
EnCopyInPlace(c) ==
  /\ pc[c] = "en_copy"
  /\ original_termios' = MakeRaw(original_termios)
  /\ raw' = [raw EXCEPT ![c] = MakeRaw(original_termios)]
  /\ Goto(c, "en_set")
  /\ UNCHANGED <<term, raw_mode_enabled, captured>>
  /\ UNCHANGED <<seq_hist, callers, baseline>>

\* struct termios raw = original_termios; raw.c_iflag &= ...; ...
EnCopy(c) ==
  /\ pc[c] = "en_copy"
  /\ raw' = [raw EXCEPT ![c] = MakeRaw(original_termios)]
  /\ Goto(c, "en_set")
  /\ UNCHANGED <<term, original_termios, raw_mode_enabled, captured>>
  /\ UNCHANGED <<seq_hist, callers, baseline>>

\* if (tcsetattr(STDIN_FILENO, TCSAFLUSH, &raw) == -1) return error;
EnSet(c) ==
  /\ pc[c] = "en_set"
  /\ \E ok \in BOOLEAN :
       IF ok
         THEN /\ term' = raw[c]
              /\ Goto(c, "en_flag")
         ELSE /\ Return(c, "enable_raw_mode", IoError(ErrSetRaw))
              /\ UNCHANGED term
  /\ raw' = [raw EXCEPT ![c] = ZeroTermios]
  /\ UNCHANGED <<original_termios, raw_mode_enabled, captured>>
  /\ UNCHANGED <<seq_hist, callers, baseline>>

\* raw_mode_enabled = 1; return ok;
EnFlag(c) ==
  /\ pc[c] = "en_flag"
  /\ raw_mode_enabled' = TRUE
  /\ Return(c, "enable_raw_mode", OkUnit)
  /\ UNCHANGED <<term, original_termios, captured, raw>>
  /\ UNCHANGED <<seq_hist, callers, baseline>>

\* if (!raw_mode_enabled) return ok;
DisCheck(c) ==
  /\ pc[c] = "idle"
  /\ IF ~raw_mode_enabled
       THEN Return(c, "disable_raw_mode", OkUnit)
       ELSE Goto(c, "dis_set")
  /\ UNCHANGED <<term, original_termios, raw_mode_enabled, captured, raw>>
  /\ UNCHANGED <<seq_hist, callers, baseline>>

\* if (tcsetattr(STDIN_FILENO, TCSAFLUSH, &original_termios) == -1) return error;
DisSet(c) ==
  /\ pc[c] = "dis_set"
  /\ \E ok \in BOOLEAN :
       IF ok
         THEN /\ term' = original_termios
              /\ Goto(c, "dis_flag")
         ELSE /\ Return(c, "disable_raw_mode", IoError(ErrRestore))
              /\ UNCHANGED term
  /\ UNCHANGED <<original_termios, raw_mode_enabled, captured, raw>>
  /\ UNCHANGED <<seq_hist, callers, baseline>>

\* raw_mode_enabled = 0; return ok;
DisFlag(c) ==
  /\ pc[c] = "dis_flag"
  /\ raw_mode_enabled' = FALSE
  /\ Return(c, "disable_raw_mode", OkUnit)
  /\ UNCHANGED <<term, original_termios, captured, raw>>
  /\ UNCHANGED <<seq_hist, callers, baseline>>

\* One calling thread, or two.
InitConc ==
  /\ InitShared
  /\ callers \in {{"c1"}, Callers}

NextConc ==
  \E c \in callers :
    \/ EnCheck(c)
    \/ EnGet(c)
    \/ EnCopy(c)
    \/ EnSet(c)
    \/ EnFlag(c)
    \/ DisCheck(c)
    \/ DisSet(c)
    \/ DisFlag(c)

SpecConc == InitConc /\ [][NextConc]_vars

----------------------------------------------------------------------------
(* Properties *)

\* live is snap with the listed input and local flags cleared, 8-bit frames
\* forced and VMIN = VTIME = 0.
DiffersAsRaw(live, snap) ==
  /\ live.c_iflag = snap.c_iflag \ {"BRKINT", "ICRNL", "INPCK", "ISTRIP", "IXON"}
  /\ live.c_lflag = snap.c_lflag \ {"ECHO", "ICANON", "IEXTEN", "ISIG"}
  /\ live.c_cflag = snap.c_cflag \cup {"CSIZE_B0", "CSIZE_B1"}
  /\ live.c_cc.VMIN = 0
  /\ live.c_cc.VTIME = 0

\* ... and every other field as in snap.
IsRawOf(live, snap) ==
  /\ DiffersAsRaw(live, snap)
  /\ live.c_oflag = snap.c_oflag
  /\ live.c_cc.VINTR = snap.c_cc.VINTR

AnyCallFailed(calls) == \E i \in 1..Len(calls) : ~calls[i].ok

\* C1: a successful disable_raw_mode that restores (one tcsetattr) leaves the
\* live attributes equal to those that were live just before the entry it
\* undoes, on the first and on every later cycle, whatever was called in
\* between.
C1_RoundTrip ==
  (op = "disable_raw_mode" /\ ret = OkUnit /\ Len(oscalls) = 1)
    => term = pre_entry

\* C1 witness: a second (or later) cycle has been restored on a terminal that
\* raw mode really changes.
C1_LaterCycleRestored ==
  /\ op = "disable_raw_mode" /\ ret = OkUnit /\ Len(oscalls) = 1
  /\ entries >= 2
  /\ term = pre_entry
  /\ ~DiffersAsRaw(term, term)

\* C2 as stated: the flag is true exactly when the live attributes are the
\* raw derivation of the snapshot, and then the snapshot was captured.
C2_AsStated ==
  /\ raw_mode_enabled <=> DiffersAsRaw(term, original_termios)
  /\ raw_mode_enabled => captured

\* C2 amended: while the flag is true the snapshot was captured by a
\* successful query and the live attributes are its raw derivation; while
\* the flag is false and a snapshot has been captured, the live attributes
\* equal the snapshot.
C2_SessionState ==
  /\ raw_mode_enabled => (captured /\ IsRawOf(term, original_termios))
  /\ (~raw_mode_enabled /\ captured) => term = original_termios

\* C2 witness: an active session whose live attributes differ from the
\* snapshot.
C2_ActiveAndDifferent ==
  /\ raw_mode_enabled /\ captured
  /\ op = "enable_raw_mode"
  /\ term # original_termios

\* C3: enable_raw_mode on an active session returns ok, makes no OS call and
\* leaves the snapshot, the live attributes and the flag as they were.
C3_EnableIdempotent ==
  [][ (raw_mode_enabled /\ op' = "enable_raw_mode")
        => /\ ret' = OkUnit
           /\ oscalls' = <<>>
           /\ UNCHANGED <<original_termios, term, raw_mode_enabled>> ]_vars

\* C3 witness: a redundant enable has returned.
C3_RedundantEnableReturned ==
  /\ op = "enable_raw_mode" /\ ret = OkUnit /\ oscalls = <<>>
  /\ raw_mode_enabled
  /\ term # original_termios

\* C4: disable_raw_mode on an inactive session returns ok, never calls
\* tcsetattr and leaves the live attributes and the session state as they
\* were.
C4_DisableIdempotent ==
  [][ (~raw_mode_enabled /\ op' = "disable_raw_mode")
        => /\ ret' = OkUnit
           /\ oscalls' = <<>>
           /\ UNCHANGED <<term, original_termios, raw_mode_enabled, captured>> ]_vars

\* C4 witness: disable returned on a process that never captured a snapshot,
\* the buffer still zeroed and unlike the live attributes.
C4_NoOpOnUncapturedSnapshot ==
  /\ op = "disable_raw_mode" /\ ret = OkUnit /\ oscalls = <<>>
  /\ ~raw_mode_enabled /\ ~captured
  /\ term # original_termios

\* C5 as stated: get_size returns ok with a pair of positive integers:
\* (80, 24) when the ioctl fails or reports zero columns, else the reported
\* pair.
C5_GetSizePositivePair ==
  op = "get_size" =>
    /\ ret.status = "ok" /\ ret.tag = "pair"
    /\ ret.a > 0 /\ ret.b > 0
    /\ IF ~oscalls[1].ok \/ oscalls[1].x = 0
         THEN ret.a = 80 /\ ret.b = 24
         ELSE ret.a = oscalls[1].x /\ ret.b = oscalls[1].y

\* C6: a disable_raw_mode on an active session whose tcsetattr fails returns
\* the restore error and leaves flag, snapshot and terminal alone; the next
\* disable_raw_mode calls tcsetattr again with the same snapshot, equal to
\* the pre-entry attributes, and restores them if that call succeeds.
C6_RestoreFailureKeepsActive ==
  [][ /\ (raw_mode_enabled /\ op' = "disable_raw_mode" /\ AnyCallFailed(oscalls'))
        => /\ ret' = IoError("Failed to restore terminal settings")
           /\ raw_mode_enabled'
           /\ UNCHANGED <<original_termios, term>>
      /\ (op = "disable_raw_mode" /\ ret.status = "error" /\ op' = "disable_raw_mode")
        => /\ Len(oscalls') = 1
           /\ oscalls'[1].call = "tcsetattr"
           /\ oscalls'[1].attrs = original_termios
           /\ original_termios = pre_entry
           /\ oscalls'[1].ok
                => (term' = pre_entry /\ ~raw_mode_enabled' /\ ret' = OkUnit) ]_vars

\* C6 witness: a restore has failed and the session is still active.
C6_RestoreFailed ==
  /\ op = "disable_raw_mode"
  /\ ret = IoError("Failed to restore terminal settings")
  /\ raw_mode_enabled
  /\ term # original_termios

\* C7: an enable_raw_mode on an inactive session whose capture or apply fails
\* returns the matching error (no tcsetattr after a failed tcgetattr), leaves
\* the flag false and the live attributes alone; the next enable_raw_mode
\* starts again with tcgetattr and the next disable_raw_mode is a no-op.
C7_FailedEntryStaysInactive ==
  [][ /\ (~raw_mode_enabled /\ op' = "enable_raw_mode" /\ AnyCallFailed(oscalls'))
        => /\ ~raw_mode_enabled'
           /\ term' = term
           /\ oscalls'[1].call = "tcgetattr"
           /\ IF ~oscalls'[1].ok
                THEN /\ Len(oscalls') = 1
                     /\ ret' = IoError("Failed to get terminal attributes")
                ELSE /\ Len(oscalls') = 2
                     /\ oscalls'[2].call = "tcsetattr"
                     /\ ret' = IoError("Failed to set terminal to raw mode")
      /\ (op = "enable_raw_mode" /\ ret.status = "error" /\ op' = "enable_raw_mode")
        => /\ Len(oscalls') >= 1
           /\ oscalls'[1].call = "tcgetattr"
           /\ ~AnyCallFailed(oscalls')
                => (Len(oscalls') = 2 /\ raw_mode_enabled' /\ ret' = OkUnit)
      /\ (op = "enable_raw_mode" /\ ret.status = "error" /\ op' = "disable_raw_mode")
        => /\ oscalls' = <<>>
           /\ ret' = OkUnit
           /\ UNCHANGED <<term, original_termios, raw_mode_enabled>> ]_vars

\* C7 witness: an apply has failed after a successful capture.
C7_ApplyFailed ==
  /\ op = "enable_raw_mode"
  /\ ret = IoError("Failed to set terminal to raw mode")
  /\ ~raw_mode_enabled
  /\ captured

\* C8: read_byte makes exactly one read, returns ok with Some(b), b the byte
\* read, exactly when the read reports one byte and None otherwise, and never
\* changes the flag, the snapshot or the terminal.
C8_ReadByte ==
  [][ op' = "read_byte"
        => /\ Len(oscalls') = 1
           /\ oscalls'[1].call = "read"
           /\ ret'.status = "ok"
           /\ ret'.tag = "some" <=> oscalls'[1].x = 1
           /\ oscalls'[1].x = 1 => (ret'.a = oscalls'[1].y /\ ret'.a \in 0..255)
           /\ oscalls'[1].x # 1 => ret'.tag = "none"
           /\ UNCHANGED <<raw_mode_enabled, original_termios, term>> ]_vars

\* C8 witness: the byte 255 was read in raw mode.
C8_ReadTopByteInRawMode ==
  /\ op = "read_byte"
  /\ ret.tag = "some" /\ ret.a = 255
  /\ raw_mode_enabled

\* C9: what a successful enable_raw_mode passes to tcsetattr, and what is
\* then live, is the captured snapshot with the listed input and local flags
\* cleared, CS8 set, VMIN = VTIME = 0 and every other field, the output
\* flags among them, as captured.
C9_AppliedAttributes ==
  (op = "enable_raw_mode" /\ ret = OkUnit /\ Len(oscalls) = 2)
    => /\ oscalls[1].call = "tcgetattr"
       /\ oscalls[1].attrs = original_termios
       /\ oscalls[2].call = "tcsetattr"
       /\ IsRawOf(oscalls[2].attrs, original_termios)
       /\ term = oscalls[2].attrs

\* C9 witness: raw mode was entered on a terminal with OPOST on, and it is
\* still on.
C9_EnteredWithOPOST ==
  /\ op = "enable_raw_mode" /\ ret = OkUnit /\ Len(oscalls) = 2
  /\ "OPOST" \in original_termios.c_oflag
  /\ "OPOST" \in term.c_oflag
  /\ term # original_termios

\* The snapshot holds the raw derivation, not the attributes the terminal
\* had before entry.
SnapshotHoldsRaw ==
  /\ original_termios # baseline
  /\ original_termios = MakeRaw(baseline)

AllIdle == \A c \in callers : pc[c] = "idle"

\* C10: with one caller the snapshot never holds raw-mode attributes while
\* the session is active, and a successful disable leaves the pre-entry
\* attributes live.
C10_SingleCallerSafe ==
  Cardinality(callers) = 1 =>
    /\ ~(raw_mode_enabled /\ SnapshotHoldsRaw)
    /\ (AllIdle /\ ~raw_mode_enabled) => term = baseline

\* C10 witness: with two callers a second capture recorded the raw
\* attributes, and a successful disable_raw_mode has then left the terminal
\* raw.
C10_RaceLosesPreEntry ==
  /\ Cardinality(callers) = 2
  /\ AllIdle
  /\ op = "disable_raw_mode" /\ ret = OkUnit
  /\ ~raw_mode_enabled
  /\ SnapshotHoldsRaw
  /\ term = original_termios
  /\ term # baseline

====
